---- MODULE Spec2Model ----
(***************************************************************************)
(* The asynchronous job lifecycle of backend/app.py: the in-memory job     *)
(* store `generations`, the submission and read handlers, and the          *)
(* background controller process_video_generation with its retry loop     *)
(* against the remote inference endpoint and its fallback generator.      *)
(*                                                                         *)
(* Handlers are `async def` without an await on the store: each runs to    *)
(* completion on the event loop and is one action.  The controller is a    *)
(* plain `def`, so the framework runs it in a worker thread: controllers   *)
(* of different jobs interleave with each other and with the handlers.     *)
(* A controller's steps are cut at its writes to the store: the start      *)
(* (status := processing), the checks before the loop, one action per      *)
(* iteration of the retry loop, and the fallback generator.  An exception  *)
(* unwinds to its handler within the action that raises it.                *)
(***************************************************************************)
EXTENDS Integers, Sequences, FiniteSets, TLC

(***************************************************************************)
(* Bounds of the model.                                                    *)
(***************************************************************************)
MaxJobs == 2        \* submissions per behaviour
MaxDuration == 6    \* durations of the jobs whose frame count is observed: -1..MaxDuration
MaxStamp == 1       \* createdAt values of the stores that are listed: 0..MaxStamp

(***************************************************************************)
(* Program constants.                                                      *)
(***************************************************************************)
max_retries == 3            \* app.py:178
InitialRetryDelay == 20     \* app.py:179
MinVideoBytes == 1000       \* app.py:228
MockSleep == 10             \* app.py:269
MockVideoBytes == 96        \* app.py:277-293, the length of mp4_data
FramesPerSecond == 8        \* app.py:173
MaxFrames == 25             \* app.py:173
ListLimit == 10             \* app.py:136
DefaultDuration == 5        \* app.py:56

None == << >>                \* Python's None (videoUrl of a job without video)

(***************************************************************************)
(* Inputs.                                                                 *)
(***************************************************************************)
\* characterImageUrl values a client may send, and the files under uploads/.
ImageUrls == {"/uploads/a.jpg", "/uploads/gone.jpg"}
UploadedFiles == {"uploads/a.jpg"}

\* str.replace("/uploads/", "uploads/") on the urls above (app.py:153).
image_path(url) ==
    CASE url = "/uploads/a.jpg" -> "uploads/a.jpg"
      [] url = "/uploads/gone.jpg" -> "uploads/gone.jpg"
      [] OTHER -> url

Durations == {DefaultDuration}

Min(a, b) == IF a <= b THEN a ELSE b

\* Mutant of num_frames: the cap is missing.
num_frames_uncapped(duration) == duration * FramesPerSecond

\* min(generation["duration"] * 8, 25) (app.py:173)
num_frames(duration) == Min(duration * FramesPerSecond, MaxFrames)

(***************************************************************************)
(* What requests.post can give back: a RequestException, or a response     *)
(* with a status code, a content type and a body.  Of the body the code    *)
(* looks at its length, at whether response.json() parses it, and at the   *)
(* estimated_time of a parsed 503 payload (NoEstimate: the key is absent). *)
(***************************************************************************)
NoEstimate == -1
EstimatedTime == 7

Body(kind, len) == [kind |-> kind, len |-> len]
Response(code, ctype, body, est) ==
    [exception |-> FALSE, status_code |-> code, content_type |-> ctype,
     body |-> body, estimated_time |-> est]

NetworkError ==
    [exception |-> TRUE, status_code |-> 0, content_type |-> "",
     body |-> Body("binary", 0), estimated_time |-> NoEstimate]

\* A 503 whose body does not parse sleeps retry_delay like one whose
\* payload lacks the key (LoadingSleep below); the payloads are enumerated.
LoadingResponses ==
    { Response(503, "application/json", Body("json", 40), NoEstimate),
      Response(503, "application/json", Body("json", 40), EstimatedTime) }

ErrorResponses ==
    { Response(500, "application/json", Body("json", 40), NoEstimate) }

OkResponses ==
    { Response(200, "video/mp4", Body("binary", n), NoEstimate) : n \in {0, 1000} }
    \cup
    { Response(200, "application/octet-stream", Body("binary", 1000), NoEstimate) }
    \cup
    { Response(200, "text/plain", Body("binary", n), NoEstimate) : n \in {999, 1000} }
    \cup
    { Response(200, "text/plain", Body("json", n), NoEstimate) :
        n \in {999, 1000} }

Responses == {NetworkError} \cup LoadingResponses \cup ErrorResponses \cup OkResponses

\* response.json(): raises on a body that is no JSON document.
JsonParses(r) == r.body.kind = "json"

\* content_type.startswith("video/") or
\* content_type.startswith("application/octet-stream") (app.py:220)
IsVideoContentType(ct) == ct \in {"video/mp4", "application/octet-stream"}

VARIABLES
    HF_TOKEN,       \* TRUE iff a credential is configured (app.py:47)
    generations,    \* the job store: generation id -> record (app.py:51)
    order,          \* the key order of the dict `generations` (insertion order)
    tasks,          \* the scheduled controller runs, one per add_task call
    videos,         \* the directory videos/: file name -> content written
    clock,          \* the wall clock read by datetime.utcnow()
    reply,          \* the response a GET handler has just returned
    traced,         \* the controller run whose remote exchange is logged (0: none)
    responses,      \* log: what requests.post gave the traced run, in order
    sleeps,         \* log: the arguments of the traced run's time.sleep calls
    posted          \* log: the num_frames parameter of the traced run's requests

vars == <<HF_TOKEN, generations, order, tasks, videos, clock, reply,
          traced, responses, sleeps, posted>>

GenerationIds == 1..MaxJobs

(***************************************************************************)
(* Records of the store and of the scheduler.                              *)
(***************************************************************************)
\* VideoGeneration(...).dict() of generate_video (app.py:103-113)
NewGeneration(id, url, duration, now) ==
    [id |-> id, characterImageUrl |-> url, script |-> "script",
     duration |-> duration, quality |-> "768", videoUrl |-> None,
     status |-> "pending", createdAt |-> now]

\* f"video_{generation_id}.mp4"
VideoFilename(id) == <<"video_", id, ".mp4">>

\* Mutant of VideoUrl: the locator lacks the mount point.
VideoUrlNoMount(filename) == filename

\* f"/videos/{video_filename}"
VideoUrl(filename) == <<"/videos/">> \o filename

\* The file that the mount of /videos on the directory videos/ (app.py:44)
\* serves for a url path: the path below the mount point, if the url is
\* under it.
NoFile == <<"404">>
ServedFile(url) ==
    IF url # << >> /\ Head(url) = "/videos/" THEN Tail(url) ELSE NoFile

\* Mutant of NewId: every submission draws the same id.
NewIdFirst(used) == 1

\* uuid.uuid4(): an id no record of the store has.
NewId(used) == CHOOSE id \in GenerationIds \ used :
                   \A other \in GenerationIds \ used : id <= other

\* One run of process_video_generation(generation_id), not yet started.
NewTask(id) ==
    [generation_id |-> id, pc |-> "scheduled", attempt |-> 0,
     retry_delay |-> 0, escaped |-> FALSE]

\* generations[id] = record: a new key goes last, an old key keeps its place.
StorePut(store, id, rec) ==
    [k \in DOMAIN store \cup {id} |-> IF k = id THEN rec ELSE store[k]]
KeysPut(keys, id) ==
    IF \E i \in 1..Len(keys) : keys[i] = id THEN keys ELSE Append(keys, id)

\* Mutant of StartedRecord: the run forgets to mark the job as processing.
StartedRecordSkipped(rec) == rec

\* generations[generation_id]["status"] = "processing" (app.py:142)
StartedRecord(rec) == [rec EXCEPT !.status = "processing"]

\* Mutant of CompletedRecord: the status is set without the videoUrl.
CompletedRecordStatusOnly(rec, url) == [rec EXCEPT !.status = "completed"]

\* generations[generation_id].update({"status": "completed", "videoUrl": ...})
\* (app.py:245-248, 298-301): one dict.update call, one step of the interpreter.
CompletedRecord(rec, url) == [rec EXCEPT !.status = "completed", !.videoUrl = url]

\* generations[generation_id]["status"] = "failed" (app.py:263, 307)
FailedRecord(rec) == [rec EXCEPT !.status = "failed"]

(***************************************************************************)
(* The retry loop of process_video_generation (app.py:178-259).            *)
(***************************************************************************)
\* Mutants of HasMoreAttempts: the comparison is off by one, either way.
HasMoreAttemptsOneMore(attempt) == attempt < max_retries
HasMoreAttemptsOneLess(attempt) == attempt < max_retries - 2

\* `attempt < max_retries - 1` (app.py:202, 255)
HasMoreAttempts(attempt) == attempt < max_retries - 1

\* Mutant of ScaleDelay: the backoff doubles.
ScaleDelayDouble(delay) == delay * 2

\* `retry_delay *= 1.5` (app.py:203, 257); exact on the values 20 and 30 the
\* loop scales, the only ones since the last attempt never scales.
ScaleDelay(delay) == (delay * 3) \div 2

\* Mutant of LoadingSleep: the payload's estimate is ignored.
LoadingSleepDefault(r, delay) == delay

\* The argument of time.sleep on a 503 (app.py:193-200): the payload's
\* estimated_time when response.json() parses and has the key, retry_delay
\* when the key is absent (dict.get default) or the parse raises.
LoadingSleep(r, delay) ==
    IF JsonParses(r) /\ r.estimated_time # NoEstimate
    THEN r.estimated_time
    ELSE delay

\* Mutant of LoadingSleeps: a 503 is slept only if the loop goes on.
LoadingSleepsIfRetried(r, attempt, delay) ==
    IF r.status_code = 503 /\ HasMoreAttempts(attempt)
    THEN <<LoadingSleep(r, delay)>>
    ELSE << >>

\* The sleeps of the block `if response.status_code == 503` (app.py:191-200),
\* which comes before the test of the attempt number (app.py:202).
LoadingSleeps(r, attempt, delay) ==
    IF r.status_code = 503 THEN <<LoadingSleep(r, delay)>> ELSE << >>

\* Mutants of TooSmall: the threshold is off by one, either way.
TooSmallOffByOne(length) == length < MinVideoBytes - 1
TooSmallInclusive(length) == length <= MinVideoBytes

\* `content_length < 1000` (app.py:228)
TooSmall(length) == length < MinVideoBytes

\* Mutant of InnerCatches: the inner handler catches every exception.
InnerCatchesAny(exc) == TRUE

\* `except requests.exceptions.RequestException` (app.py:253)
InnerCatches(exc) == exc = "RequestException"

\* Mutant of OuterCatches: the outer handler catches network errors only.
OuterCatchesRequestOnly(exc) == exc = "RequestException"

\* `except Exception` of process_video_generation (app.py:261): every
\* exception the body raises derives from Exception.
OuterCatches(exc) == exc \in {"Exception", "RequestException", "OSError"}

\* `except Exception` of mock_video_generation (app.py:305)
MockCatches(exc) == exc \in {"Exception", "RequestException", "OSError"}

Outcome(result, exc, slept, delay, written) ==
    [result |-> result, exc |-> exc, slept |-> slept, delay |-> delay,
     written |-> written]

\* The body of the inner try for one attempt (app.py:183-251), given what
\* requests.post gave back (r) and whether writing under videos/ works
\* (ok).  result: "continue", "return" (completed) or "raise"; slept: the
\* sleeps made; written: the content left in the video file, if any.
TryBody(r, attempt, delay, ok) ==
    IF r.exception
    THEN Outcome("raise", "RequestException", << >>, delay, << >>)
    ELSE IF r.status_code = 503 /\ HasMoreAttempts(attempt)
    THEN Outcome("continue", "", LoadingSleeps(r, attempt, delay),
                 ScaleDelay(delay), << >>)
    ELSE IF r.status_code # 200
    THEN Outcome("raise", "Exception", LoadingSleeps(r, attempt, delay),
                 delay, << >>)
    ELSE IF /\ ~IsVideoContentType(r.content_type)
            /\ (JsonParses(r) \/ TooSmall(r.body.len))
    THEN Outcome("raise", "Exception", << >>, delay, << >>)
    ELSE IF ~ok
    THEN Outcome("raise", "OSError", << >>, delay, << >>)
    ELSE IF r.body.len = 0
    THEN Outcome("raise", "Exception", << >>, delay, <<r.body>>)
    ELSE Outcome("return", "", << >>, delay, <<r.body>>)

\* Mutant of Iteration: there is no inner handler.
IterationNoRetry(r, attempt, delay, ok) == TryBody(r, attempt, delay, ok)

\* One iteration of the for loop: the try body and the inner handler
\* (app.py:253-259), which sleeps and lets the loop go on, or re-raises.
Iteration(r, attempt, delay, ok) ==
    LET b == TryBody(r, attempt, delay, ok)
    IN  IF b.result = "raise" /\ InnerCatches(b.exc)
        THEN IF HasMoreAttempts(attempt)
             THEN Outcome("continue", "", b.slept \o <<b.delay>>,
                          ScaleDelay(b.delay), b.written)
             ELSE b
        ELSE b

(***************************************************************************)
(* GET /generations (app.py:131-136): list.sort(key=createdAt,             *)
(* reverse=True) is stable, so equal keys keep the order of the list.      *)
(***************************************************************************)
RECURSIVE InsertDesc(_, _)
InsertDesc(sorted, rec) ==
    IF sorted = << >> THEN <<rec>>
    ELSE IF Head(sorted).createdAt >= rec.createdAt
         THEN <<Head(sorted)>> \o InsertDesc(Tail(sorted), rec)
         ELSE <<rec>> \o sorted

RECURSIVE SortDesc(_)
SortDesc(list) ==
    IF list = << >> THEN << >>
    ELSE InsertDesc(SortDesc(SubSeq(list, 1, Len(list) - 1)), list[Len(list)])

\* Mutant of Take: the slice ends one element late.
TakeOneMore(list, n) == SubSeq(list, 1, Min(n + 1, Len(list)))

\* generation_list[:10]
Take(list, n) == SubSeq(list, 1, Min(n, Len(list)))

\* list(generations.values())
Values(store, keys) == [i \in 1..Len(keys) |-> store[keys[i]]]

(***************************************************************************)
(* Logs of the traced run.                                                 *)
(***************************************************************************)
LogResponse(t, r) == IF t = traced THEN Append(responses, r) ELSE responses
LogSleeps(t, slept) == IF t = traced THEN sleeps \o slept ELSE sleeps
LogPosted(t, frames) == IF t = traced THEN Append(posted, frames) ELSE posted

(***************************************************************************)
(* Initial state: the module has just been imported.                       *)
(***************************************************************************)
NoReply == [code |-> 0, body |-> << >>]

\* No run is logged (traced = 0) or the run of one submission is.
InitWith(Traced) ==
    /\ HF_TOKEN \in BOOLEAN
    /\ generations = << >>
    /\ order = << >>
    /\ tasks = << >>
    /\ videos = << >>
    /\ clock = 0
    /\ reply = NoReply
    /\ traced \in Traced
    /\ responses = << >>
    /\ sleeps = << >>
    /\ posted = << >>

Init == InitWith({0})

InitTraced == InitWith(1..MaxJobs)

(***************************************************************************)
(* The wall clock advances.  createdAt is only ever compared (the sort key *)
(* of app.py:135), so one advance between two submissions decides every    *)
(* order and every tie; an advance no submission can read is left out.     *)
(***************************************************************************)
Tick ==
    /\ clock < Len(tasks)
    /\ Len(tasks) < MaxJobs
    /\ clock' = clock + 1
    /\ reply' = NoReply
    /\ UNCHANGED <<HF_TOKEN, generations, order, tasks, videos,
                   traced, responses, sleeps, posted>>

(***************************************************************************)
(* POST /generate-video (app.py:97-121)                                    *)
(***************************************************************************)
generate_video(url, duration) ==
    /\ Len(tasks) < MaxJobs
    /\ LET id == NewId(DOMAIN generations)
       IN  /\ generations' = StorePut(generations, id,
                                      NewGeneration(id, url, duration, clock))
           /\ order' = KeysPut(order, id)
           /\ tasks' = Append(tasks, NewTask(id))
    /\ reply' = NoReply
    /\ UNCHANGED <<HF_TOKEN, videos, clock, traced, responses, sleeps, posted>>

(***************************************************************************)
(* GET /generation/{generation_id} (app.py:123-129)                        *)
(***************************************************************************)
get_generation(id) ==
    /\ reply' = IF id \notin DOMAIN generations
                THEN [code |-> 404, body |-> << >>]
                ELSE [code |-> 200, body |-> <<generations[id]>>]
    /\ UNCHANGED <<HF_TOKEN, generations, order, tasks, videos, clock,
                   traced, responses, sleeps, posted>>

(***************************************************************************)
(* GET /generations (app.py:131-136)                                       *)
(***************************************************************************)
get_generations ==
    /\ reply' = [code |-> 200,
                 body |-> Take(SortDesc(Values(generations, order)), ListLimit)]
    /\ UNCHANGED <<HF_TOKEN, generations, order, tasks, videos, clock,
                   traced, responses, sleeps, posted>>

(***************************************************************************)
(* The end of a run of process_video_generation.                           *)
(***************************************************************************)
\* The function returns: its locals are gone.
Returned(task) == [task EXCEPT !.pc = "done", !.attempt = 0, !.retry_delay = 0]

\* Mutant of RaiseInController: the handler marks every job failed.
RaiseInControllerAll(store, task, exc) ==
    [store |-> [id \in DOMAIN store |-> FailedRecord(store[id])],
     task |-> Returned(task)]

\* An exception raised inside the outer try (app.py:140-259) reaches the
\* handler of app.py:261-263, which marks the job failed and returns; an
\* exception the handler does not catch leaves the function.
RaiseInController(store, task, exc) ==
    IF OuterCatches(exc)
    THEN [store |-> [store EXCEPT ![task.generation_id] = FailedRecord(@)],
          task |-> Returned(task)]
    ELSE [store |-> store,
          task |-> [Returned(task) EXCEPT !.escaped = TRUE]]

(***************************************************************************)
(* process_video_generation, first statement (app.py:142).                 *)
(***************************************************************************)
Start(t) ==
    /\ t \in 1..Len(tasks)
    /\ tasks[t].pc = "scheduled"
    /\ generations' = [generations EXCEPT ![tasks[t].generation_id] =
                          StartedRecord(@)]
    /\ tasks' = [tasks EXCEPT ![t].pc = "started"]
    /\ reply' = NoReply
    /\ UNCHANGED <<HF_TOKEN, order, videos, clock, traced, responses, sleeps, posted>>

(***************************************************************************)
(* process_video_generation up to the loop (app.py:144-179): choose the    *)
(* fallback generator (no token), raise (no image file) or enter the loop. *)
(***************************************************************************)
\* Mutant of Route: the image is looked up before the token.
RouteImageFirst(rec) ==
    IF image_path(rec.characterImageUrl) \notin UploadedFiles THEN "raise"
    ELSE IF ~HF_TOKEN THEN "mock"
    ELSE "request"

\* Mutant of Route: the image file is never looked up.
RouteNoImageCheck(rec) == IF ~HF_TOKEN THEN "mock" ELSE "request"

\* "mock", "raise" or "request"
Route(rec) ==
    IF ~HF_TOKEN THEN "mock"
    ELSE IF image_path(rec.characterImageUrl) \notin UploadedFiles THEN "raise"
    ELSE "request"

Prepare(t) ==
    /\ t \in 1..Len(tasks)
    /\ tasks[t].pc = "started"
    /\ LET task == tasks[t]
           route == Route(generations[task.generation_id])
       IN  CASE route = "mock" ->
                  /\ tasks' = [tasks EXCEPT ![t].pc = "mock"]
                  /\ UNCHANGED generations
             [] route = "raise" ->
                  LET after == RaiseInController(generations, task, "Exception")
                  IN  /\ tasks' = [tasks EXCEPT ![t] = after.task]
                      /\ generations' = after.store
             [] route = "request" ->
                  /\ tasks' = [tasks EXCEPT ![t] =
                                  [task EXCEPT !.pc = "request", !.attempt = 0,
                                               !.retry_delay = InitialRetryDelay]]
                  /\ UNCHANGED generations
    /\ reply' = NoReply
    /\ UNCHANGED <<HF_TOKEN, order, videos, clock, traced, responses, sleeps, posted>>

(***************************************************************************)
(* process_video_generation, one iteration of the retry loop               *)
(* (app.py:181-259): the request, the classification of what came back,    *)
(* the sleeps, and on success the file and the store update.               *)
(***************************************************************************)
\* Mutant of AfterContinue: the attempt counter is never advanced.
AfterContinueNoCount(task, it) == [task EXCEPT !.retry_delay = it.delay]

\* Where the loop stands after `continue` or after the inner handler: the
\* next attempt, or past range(max_retries), where the function returns.
AfterContinue(task, it) ==
    IF task.attempt + 1 < max_retries
    THEN [task EXCEPT !.attempt = @ + 1, !.retry_delay = it.delay]
    ELSE Returned(task)

Attempt(t, r, ok) ==
    /\ t \in 1..Len(tasks)
    /\ tasks[t].pc = "request"
    /\ LET task == tasks[t]
           id == task.generation_id
           it == Iteration(r, task.attempt, task.retry_delay, ok)
           filename == VideoFilename(id)
       IN  /\ posted' = LogPosted(t, num_frames(generations[id].duration))
           /\ responses' = LogResponse(t, r)
           /\ sleeps' = LogSleeps(t, it.slept)
           /\ videos' = IF it.written = << >> THEN videos
                        ELSE StorePut(videos, filename, it.written[1])
           /\ CASE it.result = "continue" ->
                    /\ tasks' = [tasks EXCEPT ![t] = AfterContinue(task, it)]
                    /\ UNCHANGED generations
                [] it.result = "return" ->
                    /\ tasks' = [tasks EXCEPT ![t] = Returned(task)]
                    /\ generations' = [generations EXCEPT ![id] =
                                          CompletedRecord(@, VideoUrl(filename))]
                [] it.result = "raise" ->
                    LET after == RaiseInController(generations, task, it.exc)
                    IN  /\ tasks' = [tasks EXCEPT ![t] = after.task]
                        /\ generations' = after.store
    /\ reply' = NoReply
    /\ UNCHANGED <<HF_TOKEN, order, clock, traced>>

(***************************************************************************)
(* mock_video_generation (app.py:265-307), called at app.py:149; the       *)
(* caller returns right after it.  A failed write raises OSError inside    *)
(* its try; what its handler does not catch reaches the caller's handler.  *)
(***************************************************************************)
mp4_data == Body("mp4_data", MockVideoBytes)

mock_video_generation(t, ok) ==
    /\ t \in 1..Len(tasks)
    /\ tasks[t].pc = "mock"
    /\ LET task == tasks[t]
           id == task.generation_id
           filename == VideoFilename(id)
       IN  /\ sleeps' = LogSleeps(t, <<MockSleep>>)
           /\ IF ok
              THEN /\ videos' = StorePut(videos, filename, mp4_data)
                   /\ generations' = [generations EXCEPT ![id] =
                                         CompletedRecord(@, VideoUrl(filename))]
                   /\ tasks' = [tasks EXCEPT ![t] = Returned(task)]
              ELSE /\ UNCHANGED videos
                   /\ IF MockCatches("OSError")
                      THEN /\ generations' = [generations EXCEPT ![id] =
                                                 FailedRecord(@)]
                           /\ tasks' = [tasks EXCEPT ![t] = Returned(task)]
                      ELSE LET after == RaiseInController(generations, task, "OSError")
                           IN  /\ tasks' = [tasks EXCEPT ![t] = after.task]
                               /\ generations' = after.store
    /\ reply' = NoReply
    /\ UNCHANGED <<HF_TOKEN, order, clock, traced, responses, posted>>

(***************************************************************************)
(* The system.  WriteOk: the outcomes of writing a file under videos/.     *)
(***************************************************************************)
\* The responses whose outcome depends on the storage: those with which the
\* attempt reaches the write of app.py:237.
WritingResponses ==
    {r \in Responses : TryBody(r, 0, InitialRetryDelay, TRUE).written # << >>}

Controller(t, WriteOk) ==
    \/ Start(t)
    \/ Prepare(t)
    \/ /\ t \in 1..Len(tasks)
       /\ tasks[t].pc = "request"
       /\ \E r \in Responses :
             \E ok \in IF r \in WritingResponses THEN WriteOk ELSE {TRUE} :
                Attempt(t, r, ok)
    \/ \E ok \in WriteOk : mock_video_generation(t, ok)

Submissions ==
    \/ Tick
    \/ \E url \in ImageUrls, d \in Durations : generate_video(url, d)

Readers ==
    \/ \E id \in GenerationIds : get_generation(id)
    \/ get_generations

Controllers(WriteOk) == \E t \in 1..MaxJobs : Controller(t, WriteOk)

\* The service: submissions, readers and controllers, on a storage whose
\* writes may fail.
Next == Submissions \/ Readers \/ Controllers(BOOLEAN)

Spec == Init /\ [][Next]_vars

\* The service without its readers, which write nothing but `reply`, a
\* variable no other action reads.
NextNoReaders == Submissions \/ Controllers(BOOLEAN)

\* The remote exchange of one run is logged.
SpecTraced == InitTraced /\ [][NextNoReaders]_vars

\* The logged system on a storage whose writes succeed.
NextStorageOk == Submissions \/ Controllers({TRUE})

SpecStorageOk == InitTraced /\ [][NextStorageOk]_vars

\* The service under a fair scheduler: a controller that can take a step
\* takes one (each remote call and each sleep returns).
LiveSpec ==
    /\ Init
    /\ [][NextNoReaders]_vars
    /\ \A t \in 1..MaxJobs : WF_vars(Controller(t, BOOLEAN))

(***************************************************************************)
(* GET /generations on its own, asked of every store of up to MaxListed    *)
(* jobs: the state after that many submissions, none of them started, each *)
(* having read the wall clock (which may stand still or be set back        *)
(* between two submissions) for its createdAt.                             *)
(***************************************************************************)
Stamps == 0..MaxStamp

\* The largest store listed: one job more than GET /generations returns.
MaxListed == ListLimit + 1

\* The records of the jobs 1..Len(stamps), submitted in this order.
StoreOf(stamps) ==
    [id \in 1..Len(stamps) |->
        NewGeneration(id, "/uploads/a.jpg", DefaultDuration, stamps[id])]

InitList ==
    /\ HF_TOKEN = TRUE
    /\ \E n \in 0..MaxListed :
          \E stamps \in [1..n -> Stamps] :
             /\ generations = StoreOf(stamps)
             /\ order = [i \in 1..n |-> i]
             /\ tasks = [i \in 1..n |-> NewTask(i)]
    /\ videos = << >>
    /\ clock = MaxStamp
    /\ reply = NoReply
    /\ traced = 0
    /\ responses = << >>
    /\ sleeps = << >>
    /\ posted = << >>

NextList == get_generations

SpecList == InitList /\ [][NextList]_vars

(***************************************************************************)
(* The controller run of one job, for every duration a client may submit   *)
(* (the request model takes any integer): the state after one submission.  *)
(***************************************************************************)
FrameDurations == (-1)..MaxDuration

InitFrames ==
    /\ HF_TOKEN \in BOOLEAN
    /\ \E url \in ImageUrls, duration \in FrameDurations :
          generations = StorePut(<< >>, 1, NewGeneration(1, url, duration, 0))
    /\ order = <<1>>
    /\ tasks = <<NewTask(1)>>
    /\ videos = << >>
    /\ clock = 0
    /\ reply = NoReply
    /\ traced = 1
    /\ responses = << >>
    /\ sleeps = << >>
    /\ posted = << >>

NextFrames == Controllers(BOOLEAN)

SpecFrames == InitFrames /\ [][NextFrames]_vars

(***************************************************************************)
(* Vocabulary of the properties.                                           *)
(***************************************************************************)
Terminal == {"completed", "failed"}

JobOf(t) == generations[tasks[t].generation_id]
Done(t) == tasks[t].pc = "done"

\* The logged run exists; its task, its job, its video file.
TracedExists == traced \in 1..Len(tasks)
TracedDone == TracedExists /\ Done(traced)
TracedJob == JobOf(traced)
TracedFile == VideoFilename(tasks[traced].generation_id)
LastResponse == responses[Len(responses)]

\* Kinds of answers, as the spec names them.
IsLoading(r) == ~r.exception /\ r.status_code = 503
IsLoadingNoEstimate(r) == IsLoading(r) /\ r.estimated_time = NoEstimate
IsValidVideo(r) ==
    /\ ~r.exception
    /\ r.status_code = 200
    /\ r.content_type \in {"video/mp4", "application/octet-stream"}
    /\ r.body.len > 0
IsSemanticError(r) ==
    /\ ~r.exception
    /\ \/ r.status_code \notin {200, 503}
       \/ /\ r.status_code = 200
          /\ r.content_type \notin {"video/mp4", "application/octet-stream"}
          /\ r.body.kind = "json"
IsSmallTextPlain(r) ==
    /\ ~r.exception
    /\ r.status_code = 200
    /\ r.content_type = "text/plain"
    /\ r.body.len < 1000

(***************************************************************************)
(* C1: the status of a job changes only by pending -> processing,          *)
(* processing -> completed and processing -> failed; it never regresses,   *)
(* never skips processing, and never leaves completed or failed.           *)
(***************************************************************************)
StatusStep(before, after) ==
    \/ after = before
    \/ before = "pending" /\ after = "processing"
    \/ before = "processing" /\ after \in Terminal

C1_StatusTransitions ==
    [][\A id \in DOMAIN generations :
          id \in DOMAIN generations' =>
             StatusStep(generations[id].status, generations'[id].status)]_vars

\* One job has gone all the way to completed and another to failed.
C1_Witness ==
    \E a, b \in DOMAIN generations :
        generations[a].status = "completed" /\ generations[b].status = "failed"

(***************************************************************************)
(* C2: in every state of the store, and in every body a GET handler        *)
(* returns while controllers run, a job has a videoUrl iff it is completed.*)
(***************************************************************************)
UrlIffCompleted(rec) == (rec.videoUrl # None) <=> (rec.status = "completed")

C2_VideoUrlIffCompleted ==
    /\ \A id \in DOMAIN generations : UrlIffCompleted(generations[id])
    /\ \A i \in 1..Len(reply.body) : UrlIffCompleted(reply.body[i])

\* A GET has just returned a completed job with its videoUrl while another
\* controller is inside its retry loop.
C2_Witness ==
    /\ reply.code = 200
    /\ \E i \in 1..Len(reply.body) :
          reply.body[i].status = "completed" /\ reply.body[i].videoUrl # None
    /\ \E t \in 1..Len(tasks) : tasks[t].pc = "request"

(***************************************************************************)
(* C3: whatever step of a controller run fails, the run ends with the job  *)
(* failed and no exception leaves process_video_generation.                *)
(***************************************************************************)
\* The failures of the logged run, read off its inputs and its log.
TracedMissingImage ==
    HF_TOKEN /\ image_path(TracedJob.characterImageUrl) \notin UploadedFiles
TracedLastAnswerFails ==
    /\ responses # << >>
    /\ \/ LastResponse.exception
       \/ LastResponse.status_code # 200
       \/ /\ LastResponse.content_type \notin {"video/mp4", "application/octet-stream"}
          /\ (LastResponse.body.kind = "json" \/ LastResponse.body.len < 1000)
       \/ LastResponse.body.len = 0
TracedWriteFailed == TracedFile \notin DOMAIN videos

C3_FailuresEndFailed ==
    /\ \A t \in 1..Len(tasks) :
          Done(t) => ~tasks[t].escaped /\ JobOf(t).status \in Terminal
    /\ TracedDone /\ (TracedMissingImage \/ TracedLastAnswerFails \/ TracedWriteFailed)
          => TracedJob.status = "failed"

\* The third attempt of the logged run ended in a network exception after
\* two retried answers, and the job is failed.
C3_Witness ==
    /\ TracedDone
    /\ Len(responses) = 3
    /\ LastResponse.exception
    /\ TracedJob.status = "failed"
    /\ ~tasks[traced].escaped

(***************************************************************************)
(* C4: under a fair scheduler every job whose controller run has been      *)
(* scheduled eventually is completed or failed, whatever the remote        *)
(* endpoint answers.                                                       *)
(***************************************************************************)
C4_EveryJobTerminates ==
    \A t \in 1..MaxJobs :
        (Len(tasks) >= t) ~> (Len(tasks) >= t /\ JobOf(t).status \in Terminal)

\* A job with a token and an image, hence one that went through the retry
\* loop, has ended failed, and another has ended completed.
C4_Witness ==
    /\ HF_TOKEN
    /\ \E a, b \in DOMAIN generations :
          /\ generations[a].status = "failed"
          /\ image_path(generations[a].characterImageUrl) \in UploadedFiles
          /\ generations[b].status = "completed"

(***************************************************************************)
(* C5: a controller run makes at most 3 requests to the remote endpoint,   *)
(* whatever mix of 503 answers and network exceptions it meets.            *)
(***************************************************************************)
C5_AtMostThreeRequests ==
    /\ Len(responses) <= 3
    /\ \A t \in 1..Len(tasks) : tasks[t].attempt <= 2

\* Three requests were made, a 503 and a network exception among the causes.
C5_Witness ==
    /\ Len(responses) = 3
    /\ \E i, j \in 1..2 : IsLoading(responses[i]) /\ responses[j].exception

(***************************************************************************)
(* C6: 503 without an estimate twice, then 200 with valid non-empty video: *)
(* the job is completed after exactly 3 attempts, having slept 20, then 30.*)
(***************************************************************************)
LoadingTwiceThenVideo ==
    /\ Len(responses) >= 3
    /\ IsLoadingNoEstimate(responses[1])
    /\ IsLoadingNoEstimate(responses[2])
    /\ IsValidVideo(responses[3])

C6_TwoLoadingsThenVideo ==
    LoadingTwiceThenVideo =>
        /\ Len(responses) = 3
        /\ Done(traced)
        /\ TracedJob.status = "completed"
        /\ sleeps = <<20, 30>>

C6_Witness == LoadingTwiceThenVideo /\ TracedJob.status = "completed"

(***************************************************************************)
(* C7: 503 on every attempt: the job is failed after exactly 3 attempts;   *)
(* before the third it is still processing and will ask again.             *)
(***************************************************************************)
OnlyLoadings ==
    responses # << >> /\ \A i \in 1..Len(responses) : IsLoading(responses[i])

C7_AlwaysLoadingFailsAfterThree ==
    OnlyLoadings =>
        IF Len(responses) < 3
        THEN tasks[traced].pc = "request" /\ TracedJob.status = "processing"
        ELSE Len(responses) = 3 /\ Done(traced) /\ TracedJob.status = "failed"

C7_Witness == OnlyLoadings /\ Len(responses) = 3 /\ TracedJob.status = "failed"

(***************************************************************************)
(* C8: without a credential no run ever asks the remote endpoint, and      *)
(* every run ends with the job completed, its videoUrl set and a non-empty *)
(* placeholder stored, also for an image url that names no file.           *)
(***************************************************************************)
C8_NoTokenCompletesOffline ==
    ~HF_TOKEN =>
        /\ responses = << >>
        /\ \A t \in 1..Len(tasks) :
              /\ tasks[t].pc # "request"
              /\ Done(t) =>
                    /\ JobOf(t).status = "completed"
                    /\ JobOf(t).videoUrl = VideoUrl(VideoFilename(tasks[t].generation_id))
                    /\ VideoFilename(tasks[t].generation_id) \in DOMAIN videos
                    /\ videos[VideoFilename(tasks[t].generation_id)].len > 0

\* Without a credential, the logged run of a job whose image does not exist
\* has ended completed.
C8_Witness ==
    /\ ~HF_TOKEN
    /\ TracedDone
    /\ image_path(TracedJob.characterImageUrl) \notin UploadedFiles
    /\ TracedJob.status = "completed"

(***************************************************************************)
(* C9: a 200 answer of type text/plain shorter than 1000 bytes makes the   *)
(* job failed: no videoUrl is set and no video file is written.            *)
(***************************************************************************)
SmallTextPlainAnswered == responses # << >> /\ IsSmallTextPlain(LastResponse)

C9_SmallTextPlainFails ==
    SmallTextPlainAnswered =>
        /\ Done(traced)
        /\ TracedJob.status = "failed"
        /\ TracedJob.videoUrl = None
        /\ TracedFile \notin DOMAIN videos

\* The small text/plain body was no JSON document (the truncated case).
C9_Witness ==
    /\ SmallTextPlainAnswered
    /\ LastResponse.body.kind = "binary"
    /\ TracedJob.status = "failed"

(***************************************************************************)
(* C10, as claimed: a semantic error of the remote service is retried, and *)
(* the job becomes failed only once the budget of 3 attempts is used up.   *)
(***************************************************************************)
SemanticErrorAnswered ==
    \E i \in 1..Len(responses) : IsSemanticError(responses[i])

C10_SemanticErrorRetried ==
    SemanticErrorAnswered /\ TracedJob.status = "failed" => Len(responses) = 3

(***************************************************************************)
(* C10, amended: a semantic error of the remote service is not retried:    *)
(* the attempt that receives it is the run's last request, whichever of    *)
(* the 3 attempts it is, and the job becomes failed with no videoUrl.      *)
(***************************************************************************)
C10_SemanticErrorIsFinal ==
    \A i \in 1..Len(responses) :
        IsSemanticError(responses[i]) =>
            /\ i = Len(responses)
            /\ Done(traced)
            /\ TracedJob.status = "failed"
            /\ TracedJob.videoUrl = None

\* A semantic error on the first attempt: failed after one request.
C10_Witness ==
    /\ Len(responses) = 1
    /\ IsSemanticError(responses[1])
    /\ TracedJob.status = "failed"

(***************************************************************************)
(* C11: a truncated answer (200, no video content type, a body that does   *)
(* not parse, under 1000 bytes), an empty video file and a missing image   *)
(* file are not retried: the run asks the remote endpoint no more and the  *)
(* job is failed; with a missing image the run asks not even once.         *)
(***************************************************************************)
IsTruncated(r) ==
    /\ ~r.exception
    /\ r.status_code = 200
    /\ r.content_type \notin {"video/mp4", "application/octet-stream"}
    /\ r.body.kind # "json"
    /\ r.body.len < 1000

TracedEmptyArtifact ==
    TracedExists /\ TracedFile \in DOMAIN videos /\ videos[TracedFile].len = 0

C11_FatalErrorsNotRetried ==
    /\ \A i \in 1..Len(responses) :
          IsTruncated(responses[i]) =>
              i = Len(responses) /\ Done(traced) /\ TracedJob.status = "failed"
    /\ TracedEmptyArtifact =>
          /\ Done(traced)
          /\ TracedJob.status = "failed"
          /\ \A i \in 1..Len(responses) :
                responses[i].status_code = 200 => i = Len(responses)
    /\ TracedExists /\ TracedMissingImage =>
          /\ responses = << >>
          /\ tasks[traced].pc # "request"
          /\ Done(traced) => TracedJob.status = "failed"

\* The logged run wrote an empty file on its second attempt and is failed,
\* and the run of a job whose image is missing has ended failed.
C11_Witness ==
    /\ TracedEmptyArtifact
    /\ Len(responses) = 2
    /\ TracedJob.status = "failed"
    /\ \E t \in 1..Len(tasks) :
          /\ Done(t)
          /\ image_path(JobOf(t).characterImageUrl) \notin UploadedFiles
          /\ JobOf(t).status = "failed"

(***************************************************************************)
(* C12: whatever the store holds, GET /generations returns at most 10      *)
(* jobs, those with the latest createdAt, in descending order of           *)
(* createdAt, jobs of equal createdAt in the order of their insertion.     *)
(***************************************************************************)
\* The place of a job in the insertion order of the store.
InsertedAt(id) == CHOOSE i \in 1..Len(order) : order[i] = id

\* Job a is listed before job b: it is later, or as late and inserted first.
ListedBefore(a, b) ==
    \/ a.createdAt > b.createdAt
    \/ a.createdAt = b.createdAt /\ InsertedAt(a.id) < InsertedAt(b.id)

Submitted == Len(tasks') # Len(tasks)

SubmissionEffect ==
    LET run == tasks'[Len(tasks')]
        id == run.generation_id
    IN  /\ tasks' = Append(tasks, run)
        /\ run.pc = "scheduled"
        /\ id \notin DOMAIN generations
        /\ DOMAIN generations' = DOMAIN generations \cup {id}
        /\ generations'[id].id = id
        /\ generations'[id].status = "pending"
        /\ \A other \in DOMAIN generations : generations'[other] = generations[other]

OneRunPerJob(runs) ==
    \A a, b \in 1..Len(runs) : a # b => runs[a].generation_id # runs[b].generation_id

C13_FreshIdOneRun ==
    [][/\ Submitted => SubmissionEffect
       /\ DOMAIN generations' # DOMAIN generations => Submitted
       /\ OneRunPerJob(tasks')
       /\ \A id \in DOMAIN generations' :
             \E t \in 1..Len(tasks') : tasks'[t].generation_id = id]_vars

\* The controller runs of two different jobs are both inside the retry loop.
C13_Witness ==
    \E a, b \in 1..Len(tasks) :
        /\ tasks[a].generation_id # tasks[b].generation_id
        /\ tasks[a].pc = "request"
        /\ tasks[b].pc = "request"

(***************************************************************************)
(* C14: a network exception on attempt 1 or 2 is followed by a sleep of    *)
(* the current backoff and by another attempt, so that fewer than 3        *)
(* network failures followed by a valid video end in completed; a network  *)
(* exception on attempt 3 is followed by no sleep and no attempt, and the  *)
(* job is failed.                                                          *)
(***************************************************************************)
\* The default backoff during attempt i: 20, scaled by 1.5 per attempt.
Backoff(i) == <<20, 30, 45>>[i]

NetworkFailuresThenVideo ==
    /\ responses # << >>
    /\ IsValidVideo(LastResponse)
    /\ \A i \in 1..(Len(responses) - 1) : responses[i].exception

C14_NetworkErrorsRetried ==
    /\ \A i \in 1..Len(responses) :
          responses[i].exception =>
              IF i < 3
              THEN /\ Len(sleeps) >= i
                   /\ sleeps[i] = Backoff(i)
                   /\ \/ Len(responses) > i
                      \/ /\ Len(sleeps) = i
                         /\ tasks[traced].pc = "request"
                         /\ TracedJob.status = "processing"
              ELSE /\ Len(responses) = 3
                   /\ Len(sleeps) = 2
                   /\ Done(traced)
                   /\ TracedJob.status = "failed"
    /\ NetworkFailuresThenVideo =>
          /\ Done(traced)
          /\ TracedJob.status = "completed"
          /\ Len(sleeps) = Len(responses) - 1

\* Two network failures, slept 20 and 30, then a valid video: completed.
C14_Witness ==
    /\ NetworkFailuresThenVideo
    /\ Len(responses) = 3
    /\ sleeps = <<20, 30>>
    /\ TracedJob.status = "completed"

(***************************************************************************)
(* C15: the default backoff is 20 at the first attempt and 1.5 times the   *)
(* previous one at each later attempt, whether the attempt before ended in *)
(* a 503 or in a network exception (20, 30, 45); a 503 is slept for the    *)
(* estimate of its payload if it has one and for the default otherwise,    *)
(* and an estimate does not keep the default from being scaled.            *)
(***************************************************************************)
HasEstimate(r) == IsLoading(r) /\ r.estimated_time # NoEstimate

C15_BackoffSchedule ==
    HF_TOKEN =>
        /\ \A i \in 1..Len(sleeps) :
              /\ i <= Len(responses)
              /\ IsLoading(responses[i]) \/ responses[i].exception
              /\ sleeps[i] = IF HasEstimate(responses[i])
                             THEN responses[i].estimated_time
                             ELSE Backoff(i)
        /\ TracedExists /\ tasks[traced].pc = "request" =>
              tasks[traced].retry_delay = Backoff(Len(responses) + 1)

\* A 503 with an estimate, a network exception, a 503 without an estimate:
\* the sleeps are the estimate, then 30, then 45.
C15_Witness ==
    /\ Len(responses) = 3
    /\ HasEstimate(responses[1])
    /\ responses[2].exception
    /\ IsLoadingNoEstimate(responses[3])
    /\ sleeps = <<responses[1].estimated_time, 30, 45>>

(***************************************************************************)
(* C16: a 200 answer whose content type is neither video/* nor             *)
(* application/octet-stream makes the job failed if its body parses, of    *)
(* whatever size; if the body does not parse, 1000 bytes or more are taken *)
(* as video and the job completes with them, and 999 bytes or fewer make   *)
(* the job failed.                                                         *)
(***************************************************************************)
IsOtherType(r) ==
    /\ ~r.exception
    /\ r.status_code = 200
    /\ r.content_type \notin {"video/mp4", "application/octet-stream"}

C16_OtherTypeClassified ==
    \A i \in 1..Len(responses) :
        IsOtherType(responses[i]) =>
            /\ i = Len(responses)
            /\ Done(traced)
            /\ IF responses[i].body.kind # "json" /\ responses[i].body.len >= 1000
               THEN /\ TracedJob.status = "completed"
                    /\ TracedFile \in DOMAIN videos
                    /\ videos[TracedFile] = responses[i].body
               ELSE /\ TracedJob.status = "failed"
                    /\ TracedFile \notin DOMAIN videos

\* A text/plain body of exactly 1000 bytes that does not parse was accepted.
C16_Witness ==
    /\ responses # << >>
    /\ IsOtherType(LastResponse)
    /\ LastResponse.body.kind # "json"
    /\ LastResponse.body.len = 1000
    /\ TracedJob.status = "completed"

(***************************************************************************)
(* C17: when a job is completed, the file video_<id>.mp4 is not empty and  *)
(* holds the bytes the run accepted (the body of the answer, or the fixed  *)
(* placeholder of the fallback generator), and the job's videoUrl is       *)
(* /videos/video_<id>.mp4, so that reading the videoUrl gives those bytes; *)
(* a 200 answer with an empty body never makes a job completed.            *)
(***************************************************************************)
\* What a GET of the url returns: the content of the file it is served from.
Served(url) == videos[ServedFile(url)]

C17_ArtifactRoundTrip ==
    /\ \A t \in 1..Len(tasks) :
          JobOf(t).status = "completed" =>
              LET id == tasks[t].generation_id
                  file == <<"video_", id, ".mp4">>
              IN  /\ file \in DOMAIN videos
                  /\ videos[file].len > 0
                  /\ JobOf(t).videoUrl = <<"/videos/", "video_", id, ".mp4">>
                  /\ ServedFile(JobOf(t).videoUrl) = file
    /\ TracedExists /\ TracedJob.status = "completed" =>
          Served(TracedJob.videoUrl) =
             IF HF_TOKEN THEN LastResponse.body
                         ELSE [kind |-> "mp4_data", len |-> 96]
    /\ \A i \in 1..Len(responses) :
          responses[i].status_code = 200 /\ responses[i].body.len = 0 =>
              Done(traced) /\ TracedJob.status = "failed"

\* Two jobs are completed, each with its own file, and the logged run's
\* file holds the body of the answer it accepted on a later attempt.
C17_Witness ==
    /\ HF_TOKEN
    /\ Len(responses) > 1
    /\ TracedJob.status = "completed"
    /\ Served(TracedJob.videoUrl) = LastResponse.body
    /\ \E t \in 1..Len(tasks) : t # traced /\ JobOf(t).status = "completed"

(***************************************************************************)
(* C18: every request carries the frame count min(duration * 8, 25): 8     *)
(* times the duration up to a duration of 3 (8, 16, 24), and 25 from a     *)
(* duration of 4 on; it never exceeds 25.                                  *)
(***************************************************************************)
C18_FrameCount ==
    /\ Len(posted) = Len(responses)
    /\ \A i \in 1..Len(posted) :
          /\ posted[i] <= 25
          /\ posted[i] = IF TracedJob.duration >= 4 THEN 25
                         ELSE 8 * TracedJob.duration

\* The job of the first capped duration has asked three times with 25.
C18_Witness ==
    /\ TracedExists
    /\ TracedJob.duration = 4
    /\ posted = <<25, 25, 25>>

(***************************************************************************)
(* C19: a controller run changes nothing in the store but the status and   *)
(* the videoUrl of its own job: the id, characterImageUrl, script,         *)
(* duration, quality and createdAt of every job stay as created, the       *)
(* records of all other jobs stay as they are, and no operation removes a  *)
(* job from the store.                                                     *)
(***************************************************************************)
Inputs(rec) ==
    <<rec.id, rec.characterImageUrl, rec.script, rec.duration, rec.quality,
      rec.createdAt>>

\* The step is one of controller run t.
RunStepped(t) == tasks'[t] # tasks[t]

C19_ControllerFrame ==
    [][/\ DOMAIN generations \subseteq DOMAIN generations'
       /\ SubSeq(order', 1, Len(order)) = order
       /\ \A id \in DOMAIN generations :
             /\ DOMAIN generations'[id] = DOMAIN generations[id]
             /\ Inputs(generations'[id]) = Inputs(generations[id])
             /\ generations'[id] # generations[id] =>
                   \E t \in 1..Len(tasks) :
                      tasks[t].generation_id = id /\ RunStepped(t)
       /\ \A t \in 1..Len(tasks) :
             RunStepped(t) =>
                \A id \in DOMAIN generations \ {tasks[t].generation_id} :
                   generations'[id] = generations[id]]_vars

\* One run has failed its job while the job submitted later, at a later
\* time, is still as created.
C19_Witness ==
    \E a, b \in DOMAIN generations :
        /\ generations[a].status = "failed"
        /\ generations[b] =
              NewGeneration(b, generations[b].characterImageUrl,
                            generations[b].duration, generations[b].createdAt)
        /\ generations[a].createdAt < generations[b].createdAt

(***************************************************************************)
(* C20: every 503 is slept exactly once, on the third attempt too, where   *)
(* the run sleeps and only then fails the job; a run that gets three 503   *)
(* answers makes three requests and three sleeps, of 20, 30 and 45 if no   *)
(* answer carries an estimate.                                             *)
(***************************************************************************)
\* The attempts of the logged run that sleep: those answered 503 and those
\* before the third that end in a network exception.
SleepingAttempts ==
    {i \in 1..Len(responses) :
        IsLoading(responses[i]) \/ (responses[i].exception /\ i < 3)}

C20_LoadingAlwaysSleeps ==
    HF_TOKEN =>
        /\ Len(sleeps) = Cardinality(SleepingAttempts)
        /\ \A i \in 1..Len(responses) :
              IsLoading(responses[i]) => Len(sleeps) >= i
        /\ OnlyLoadings /\ Len(responses) >= 3 =>
              /\ Len(responses) = 3
              /\ Len(sleeps) = 3
              /\ TracedJob.status = "failed"
              /\ (\A i \in 1..3 : IsLoadingNoEstimate(responses[i])) =>
                    sleeps = <<20, 30, 45>>

\* Three 503 answers without an estimate: slept 20, 30 and 45, then failed.
C20_Witness ==
    /\ Len(responses) = 3
    /\ \A i \in 1..3 : IsLoadingNoEstimate(responses[i])
    /\ sleeps = <<20, 30, 45>>
    /\ TracedJob.status = "failed"

====
